---- MODULE Spec2Model ----
(***************************************************************************)
(* A model of the repository summarizer: the URL parser, the tree          *)
(* classifier and the content assembler of repo_fetcher.py, the memoized   *)
(* completion call and the response validator of llm_client.py, and the    *)
(* POST /summarize handler of app.py.                                      *)
(*                                                                         *)
(* Text is modelled as a sequence of one-character strings, so that        *)
(* strip, split, startswith, endswith, lower and slicing are computed as   *)
(* Python computes them.  File bodies, which only enter the assembler by   *)
(* their length and blankness, are modelled by those two attributes.  The  *)
(* backtick, which cannot be written inside a string here, is the          *)
(* one-character string written "BACKTICK".                                *)
(***************************************************************************)
EXTENDS Integers, Sequences, FiniteSets, TLC

VARIABLES
    \* fetch_repo_content (repo_fetcher.py): the position in the function, the
    \* tree provider's blob paths, the filtered and sorted list, the loop index,
    \* the running total, the sections emitted, the paths fetched, the content
    \* the last fetch gave.
    fpc, all_files, relevant, idx, total_chars, parts, fetched, fcontent,
    \* one call of _should_skip and _file_priority: the path (its segments) and
    \* the two results
    cpc, cpath, cskip, cprio,
    \* one call of parse_github_url: the input and the result
    upc, uin, uout,
    \* one call of _parse_response: the raw text and the result
    ppc, praw, pout,
    \* one POST /summarize handled alone (app.py): the position, the request
    \* payload, the assembled content, the exception raised if any, the response
    apc, payload, repo_content, failure, response,
    \* llm_client.py: the persistent cache, the NEBIUS_API_KEY of the process,
    \* the requests in flight, and the history of the completion service: the
    \* schemas it was sent, the texts it returned, the contents settled
    cache, api_key, calls, sent, returned, settled

fetchVars == <<fpc, all_files, relevant, idx, total_chars, parts, fetched, fcontent>>
classVars == <<cpc, cpath, cskip, cprio>>
urlVars == <<upc, uin, uout>>
parseVars == <<ppc, praw, pout>>
appVars == <<apc, payload, repo_content, failure, response>>
llmVars == <<cache, api_key, sent, returned, settled>>

vars == <<fetchVars, classVars, urlVars, parseVars, appVars, llmVars, calls>>

(***************************************************************************)
(* Bounds of the model.                                                    *)
(***************************************************************************)
MaxFiles == 3

MaxSegs == 3

MaxExtra == 2

MaxCalls == 2

(***************************************************************************)
(* Python str operations on sequences of characters.                       *)
(***************************************************************************)
Whitespace == {" ", "\n", "\t", "\r"}

Max(a, b) == IF a >= b THEN a ELSE b

Min(a, b) == IF a <= b THEN a ELSE b

\* s[:n] for n >= 0
Take(s, n) == SubSeq(s, 1, Min(n, Len(s)))

\* s[n:] for n >= 0
Drop(s, n) == SubSeq(s, Min(n, Len(s)) + 1, Len(s))

StartsWith(s, p) == Len(p) <= Len(s) /\ SubSeq(s, 1, Len(p)) = p

EndsWith(s, p) == Len(p) <= Len(s) /\ SubSeq(s, Len(s) - Len(p) + 1, Len(s)) = p

RECURSIVE LStrip(_, _)
LStrip(s, cs) == IF s # <<>> /\ Head(s) \in cs THEN LStrip(Tail(s), cs) ELSE s

RECURSIVE RStrip(_, _)
RStrip(s, cs) ==
    IF s # <<>> /\ s[Len(s)] \in cs THEN RStrip(SubSeq(s, 1, Len(s) - 1), cs) ELSE s

\* str.strip()
Strip(s) == LStrip(RStrip(s, Whitespace), Whitespace)

\* Position of the first c in s, 0 when there is none.
FindFrom(s, c, i) ==
    LET at == { k \in i..Len(s) : s[k] = c }
    IN  IF at = {} THEN 0 ELSE CHOOSE k \in at : \A m \in at : k <= m

Find(s, c) == FindFrom(s, c, 1)

\* Position of the first character of s that is in cs, 0 when there is none.
FindAnyFrom(s, cs, i) ==
    LET at == { k \in i..Len(s) : s[k] \in cs }
    IN  IF at = {} THEN 0 ELSE CHOOSE k \in at : \A m \in at : k <= m

\* str.split(c): the pieces between the occurrences of c, empty pieces kept.
RECURSIVE Split(_, _)
Split(s, c) ==
    LET i == Find(s, c)
    IN  IF i = 0 THEN <<s>>
        ELSE <<SubSeq(s, 1, i - 1)>> \o Split(SubSeq(s, i + 1, Len(s)), c)

\* str.count(c)
Count(s, c) == Cardinality({ k \in 1..Len(s) : s[k] = c })

\* c.join(pieces)
RECURSIVE Join(_, _)
Join(pieces, c) ==
    IF pieces = <<>> THEN <<>>
    ELSE IF Len(pieces) = 1 THEN pieces[1]
    ELSE pieces[1] \o <<c>> \o Join(Tail(pieces), c)

UpperCase == <<"A","B","C","D","E","F","G","H","I","J","K","L","M","N","O","P","Q","R","S","T","U","V","W","X","Y","Z">>

LowerCase == <<"a","b","c","d","e","f","g","h","i","j","k","l","m","n","o","p","q","r","s","t","u","v","w","x","y","z">>

LowerChar(c) ==
    LET i == Find(UpperCase, c) IN IF i = 0 THEN c ELSE LowerCase[i]

\* str.lower()
Lower(s) == [i \in 1..Len(s) |-> LowerChar(s[i])]

\* The elements of a sequence that satisfy Keep, in order.
RECURSIVE NonEmpty(_)
NonEmpty(pieces) ==
    IF pieces = <<>> THEN <<>>
    ELSE (IF Head(pieces) # <<>> THEN <<Head(pieces)>> ELSE <<>>)
         \o NonEmpty(Tail(pieces))

Last(s) == s[Len(s)]

\* len(str(n)) for n >= 0
RECURSIVE Digits(_)
Digits(n) == IF n < 10 THEN 1 ELSE 1 + Digits(n \div 10)

(***************************************************************************)
(* The texts that appear in the inputs of the model.  A state holds a text *)
(* by its name (a string); Chars gives its characters.                     *)
(***************************************************************************)
Chars ==
    "github.com" :> <<"g","i","t","h","u","b",".","c","o","m">> @@ "www.github.com" :> <<"w","w","w",".","g","i","t","h","u","b",".","c","o","m">> @@ "gitlab.com" :> <<"g","i","t","l","a","b",".","c","o","m">> @@ "github.com.evil.org" :> <<"g","i","t","h","u","b",".","c","o","m",".","e","v","i","l",".","o","r","g">>
    @@ "psf" :> <<"p","s","f">> @@ "requests" :> <<"r","e","q","u","e","s","t","s">> @@ "b" :> <<"b">> @@ "tree" :> <<"t","r","e","e">> @@ "main" :> <<"m","a","i","n">> @@ "x.git" :> <<"x",".","g","i","t">>
    @@ "README.md" :> <<"R","E","A","D","M","E",".","m","d">> @@ "setup.py" :> <<"s","e","t","u","p",".","p","y">> @@ "main.py" :> <<"m","a","i","n",".","p","y">> @@ "src/app.py" :> <<"s","r","c","/","a","p","p",".","p","y">>
    @@ "node_modules/pkg/index.js" :> <<"n","o","d","e","_","m","o","d","u","l","e","s","/","p","k","g","/","i","n","d","e","x",".","j","s">> @@ "logo.png" :> <<"l","o","g","o",".","p","n","g">>
    @@ "src/main/java/com/example/application/services/UserAccountServiceImpl.java" :> <<"s","r","c","/","m","a","i","n","/","j","a","v","a","/","c","o","m","/","e","x","a","m","p","l","e","/","a","p","p","l","i","c","a","t","i","o","n","/","s","e","r","v","i","c","e","s","/","U","s","e","r","A","c","c","o","u","n","t","S","e","r","v","i","c","e","I","m","p","l",".","j","a","v","a">>
    @@ "docs/reference/architecture/decisions/2021/backend/0042-use-postgresql-for-the-primary-datastore-of-accounts.md" :> <<"d","o","c","s","/","r","e","f","e","r","e","n","c","e","/","a","r","c","h","i","t","e","c","t","u","r","e","/","d","e","c","i","s","i","o","n","s","/","2","0","2","1","/","b","a","c","k","e","n","d","/","0","0","4","2","-","u","s","e","-","p","o","s","t","g","r","e","s","q","l","-","f","o","r","-","t","h","e","-","p","r","i","m","a","r","y","-","d","a","t","a","s","t","o","r","e","-","o","f","-","a","c","c","o","u","n","t","s",".","m","d">>
    @@ "src" :> <<"s","r","c">> @@ "vendor" :> <<"v","e","n","d","o","r">> @@ "Vendor" :> <<"V","e","n","d","o","r">> @@ "readme" :> <<"r","e","a","d","m","e">> @@ "package.json" :> <<"p","a","c","k","a","g","e",".","j","s","o","n">>
    @@ "MAKEFILE" :> <<"M","A","K","E","F","I","L","E">> @@ "image.png" :> <<"i","m","a","g","e",".","p","n","g">> @@ "image.PNG" :> <<"i","m","a","g","e",".","P","N","G">> @@ "lasso" :> <<"l","a","s","s","o">> @@ "go.sum" :> <<"g","o",".","s","u","m">>
    @@ "workflows" :> <<"w","o","r","k","f","l","o","w","s">>
    @@ "" :> <<>> @@ "   " :> <<" "," "," ">> @@ "https://github.com/psf/requests" :> <<"h","t","t","p","s",":","/","/","g","i","t","h","u","b",".","c","o","m","/","p","s","f","/","r","e","q","u","e","s","t","s">> @@ "https://gitlab.com/a/b" :> <<"h","t","t","p","s",":","/","/","g","i","t","l","a","b",".","c","o","m","/","a","/","b">>
    @@ "https://github.com/psf" :> <<"h","t","t","p","s",":","/","/","g","i","t","h","u","b",".","c","o","m","/","p","s","f">>

(***************************************************************************)
(* repo_fetcher.py: the constants.                                         *)
(***************************************************************************)
SKIP_DIRS == {
    <<"n","o","d","e","_","m","o","d","u","l","e","s">>, <<"v","e","n","d","o","r">>, <<".","g","i","t">>, <<"_","_","p","y","c","a","c","h","e","_","_">>, <<".","v","e","n","v">>, <<"v","e","n","v">>,
    <<"d","i","s","t">>, <<"b","u","i","l","d">>, <<".","n","e","x","t">>, <<".","n","u","x","t">>, <<"c","o","v","e","r","a","g","e">>, <<".","t","o","x">>, <<".","n","o","x">>,
    <<"e","n","v">>, <<".","e","g","g","s">>, <<"e","g","g","s">>, <<".","m","y","p","y","_","c","a","c","h","e">>, <<".","p","y","t","e","s","t","_","c","a","c","h","e">>,
    <<"b","o","w","e","r","_","c","o","m","p","o","n","e","n","t","s">>, <<"j","s","p","m","_","p","a","c","k","a","g","e","s">>, <<".","t","e","r","r","a","f","o","r","m">>, <<".","g","r","a","d","l","e">> }

SKIP_EXTENSIONS == {
    <<".","p","y","c">>, <<".","p","y","o">>, <<".","s","o">>, <<".","o">>, <<".","a">>, <<".","d","y","l","i","b">>, <<".","d","l","l">>, <<".","e","x","e">>,
    <<".","b","i","n">>, <<".","d","a","t">>, <<".","d","b">>, <<".","s","q","l","i","t","e">>, <<".","s","q","l","i","t","e","3">>,
    <<".","p","n","g">>, <<".","j","p","g">>, <<".","j","p","e","g">>, <<".","g","i","f">>, <<".","b","m","p">>, <<".","i","c","o">>, <<".","s","v","g">>, <<".","w","e","b","p">>,
    <<".","t","t","f">>, <<".","w","o","f","f">>, <<".","w","o","f","f","2">>, <<".","e","o","t">>, <<".","o","t","f">>,
    <<".","z","i","p">>, <<".","t","a","r">>, <<".","g","z">>, <<".","b","z","2">>, <<".","7","z">>, <<".","r","a","r">>, <<".","j","a","r">>, <<".","w","a","r">>,
    <<".","p","d","f">>, <<".","d","o","c">>, <<".","d","o","c","x">>, <<".","x","l","s">>, <<".","x","l","s","x">>, <<".","p","p","t">>, <<".","p","p","t","x">>,
    <<".","m","p","3">>, <<".","m","p","4">>, <<".","a","v","i">>, <<".","m","o","v">>, <<".","w","a","v">>, <<".","f","l","a","c">>,
    <<".","m","i","n",".","j","s">>, <<".","m","i","n",".","c","s","s">>, <<".","m","a","p">>,
    <<".","l","o","c","k">>, <<".","s","u","m">> }

SKIP_FILES == {
    <<"p","a","c","k","a","g","e","-","l","o","c","k",".","j","s","o","n">>, <<"y","a","r","n",".","l","o","c","k">>, <<"p","n","p","m","-","l","o","c","k",".","y","a","m","l">>, <<"P","i","p","f","i","l","e",".","l","o","c","k">>,
    <<"p","o","e","t","r","y",".","l","o","c","k">>, <<"c","o","m","p","o","s","e","r",".","l","o","c","k">>, <<"G","e","m","f","i","l","e",".","l","o","c","k">>, <<"g","o",".","s","u","m">>,
    <<".","D","S","_","S","t","o","r","e">>, <<"T","h","u","m","b","s",".","d","b">> }

CONFIG_FILES == {
    <<"p","a","c","k","a","g","e",".","j","s","o","n">>, <<"r","e","q","u","i","r","e","m","e","n","t","s",".","t","x","t">>, <<"p","y","p","r","o","j","e","c","t",".","t","o","m","l">>, <<"s","e","t","u","p",".","p","y">>,
    <<"s","e","t","u","p",".","c","f","g">>, <<"C","a","r","g","o",".","t","o","m","l">>, <<"g","o",".","m","o","d">>, <<"G","e","m","f","i","l","e">>, <<"c","o","m","p","o","s","e","r",".","j","s","o","n">>,
    <<"M","a","k","e","f","i","l","e">>, <<"D","o","c","k","e","r","f","i","l","e">>, <<"d","o","c","k","e","r","-","c","o","m","p","o","s","e",".","y","m","l">>, <<"d","o","c","k","e","r","-","c","o","m","p","o","s","e",".","y","a","m","l">>,
    <<".","g","i","t","h","u","b","/","w","o","r","k","f","l","o","w","s">>, <<"t","s","c","o","n","f","i","g",".","j","s","o","n">>, <<"w","e","b","p","a","c","k",".","c","o","n","f","i","g",".","j","s">>,
    <<"v","i","t","e",".","c","o","n","f","i","g",".","t","s">>, <<"v","i","t","e",".","c","o","n","f","i","g",".","j","s">>, <<"C","M","a","k","e","L","i","s","t","s",".","t","x","t">>, <<"p","o","m",".","x","m","l">>,
    <<"b","u","i","l","d",".","g","r","a","d","l","e">>, <<"b","u","i","l","d",".","g","r","a","d","l","e",".","k","t","s">> }

MAX_CONTENT_CHARS == 60000

MAX_FILE_SIZE == 50000

MAX_TREE_FILES == 500

_CONFIG_NAMES_LOWER == { Lower(Last(Split(f, "/"))) : f \in CONFIG_FILES }

(***************************************************************************)
(* parse_github_url: the pair (owner, repo), or the ValueError raised.     *)
(***************************************************************************)
GitSuffix == <<".","g","i","t">>

GithubHosts == { <<"g","i","t","h","u","b",".","c","o","m">>, <<"w","w","w",".","g","i","t","h","u","b",".","c","o","m">> }

SchemeChars ==
    {UpperCase[i] : i \in 1..26} \cup {LowerCase[i] : i \in 1..26}
    \cup {"0", "1", "2", "3", "4", "5", "6", "7", "8", "9", "+", "-", "."}

\* urllib.parse.urlparse(u).hostname and .path for the URLs of the model: the
\* scheme is the text before the first ":" when it is made of scheme
\* characters; a netloc follows only after "//" and runs to the next "/", "?"
\* or "#"; the hostname is the netloc without userinfo and port, lowercased,
\* and None (here the record's host = <<>> with hasHost FALSE) when empty.
UrlParse(u) ==
    LET colon == Find(u, ":")
        hasScheme == /\ colon > 1
                     /\ \A i \in 1..(colon - 1) : u[i] \in SchemeChars
                     /\ u[1] \notin {"0", "1", "2", "3", "4", "5", "6", "7", "8", "9", "+", "-", "."}
        rest == IF hasScheme THEN Drop(u, colon) ELSE u
        hasNetloc == StartsWith(rest, <<"/", "/">>)
        afterSlashes == Drop(rest, 2)
        stop == FindAnyFrom(afterSlashes, {"/", "?", "#"}, 1)
        netloc == IF ~hasNetloc THEN <<>>
                  ELSE IF stop = 0 THEN afterSlashes
                  ELSE Take(afterSlashes, stop - 1)
        tail == IF ~hasNetloc THEN rest
                ELSE IF stop = 0 THEN <<>>
                ELSE Drop(afterSlashes, stop - 1)
        hostport == Last(Split(netloc, "@"))
        host == Lower(Head(Split(hostport, ":")))
        pathEnd == FindAnyFrom(tail, {"?", "#"}, 1)
        path == IF pathEnd = 0 THEN tail ELSE Take(tail, pathEnd - 1)
    IN  [hasHost |-> host # <<>>, hostname |-> host, path |-> path]

parse_github_url_nogit(u0) ==
    LET u1 == RStrip(Strip(u0), {"/"})
        parsed == UrlParse(u1)
        segs == NonEmpty(Split(parsed.path, "/"))
    IN  IF ~parsed.hasHost \/ parsed.hostname \notin GithubHosts
        THEN [ok |-> FALSE, error |-> "ValueError", message |-> "Not a GitHub URL",
              owner |-> <<>>, repo |-> <<>>]
        ELSE IF Len(segs) < 2
        THEN [ok |-> FALSE, error |-> "ValueError",
              message |-> "Cannot parse owner/repo", owner |-> <<>>, repo |-> <<>>]
        ELSE [ok |-> TRUE, error |-> "", message |-> "",
              owner |-> segs[1], repo |-> segs[2]]

parse_github_url(u0) ==
    LET u1 == RStrip(Strip(u0), {"/"})
        u2 == IF EndsWith(u1, GitSuffix) THEN Take(u1, Len(u1) - 4) ELSE u1
        parsed == UrlParse(u2)
        segs == NonEmpty(Split(parsed.path, "/"))
    IN  IF ~parsed.hasHost \/ parsed.hostname \notin GithubHosts
        THEN [ok |-> FALSE, error |-> "ValueError", message |-> "Not a GitHub URL",
              owner |-> <<>>, repo |-> <<>>]
        ELSE IF Len(segs) < 2
        THEN [ok |-> FALSE, error |-> "ValueError",
              message |-> "Cannot parse owner/repo", owner |-> <<>>, repo |-> <<>>]
        ELSE [ok |-> TRUE, error |-> "", message |-> "",
              owner |-> segs[1], repo |-> segs[2]]

(***************************************************************************)
(* The tree classifier: _should_skip and _file_priority.                   *)
(***************************************************************************)
_should_skip_no_dirs(path) ==
    LET segs == Split(path, "/")
        filename == Last(segs)
    IN  \/ filename \in SKIP_FILES
        \/ \E ext \in SKIP_EXTENSIONS : EndsWith(filename, ext)

_should_skip(path) ==
    LET segs == Split(path, "/")
        filename == Last(segs)
    IN  \/ \E i \in 1..(Len(segs) - 1) : segs[i] \in SKIP_DIRS
        \/ filename \in SKIP_FILES
        \/ \E ext \in SKIP_EXTENSIONS : EndsWith(filename, ext)

_file_priority_case_sensitive(path) ==
    LET name == Last(Split(path, "/"))
        depth == Count(path, "/")
    IN  IF StartsWith(name, <<"r","e","a","d","m","e">>) THEN 0
        ELSE IF name \in _CONFIG_NAMES_LOWER THEN 1
        ELSE IF depth = 0 THEN 2
        ELSE 3 + depth

_file_priority(path) ==
    LET name == Lower(Last(Split(path, "/")))
        depth == Count(path, "/")
    IN  IF StartsWith(name, <<"r","e","a","d","m","e">>) THEN 0
        ELSE IF name \in _CONFIG_NAMES_LOWER THEN 1
        ELSE IF depth = 0 THEN 2
        ELSE 3 + depth

\* list.sort(key=_file_priority): stable, so an entry goes after every entry
\* already placed whose key is not larger.
RECURSIVE InsertByPriority(_, _)
InsertByPriority(sorted, p) ==
    IF sorted = <<>> THEN <<p>>
    ELSE IF _file_priority(Chars[Head(sorted)]) <= _file_priority(Chars[p])
    THEN <<Head(sorted)>> \o InsertByPriority(Tail(sorted), p)
    ELSE <<p>> \o sorted

RECURSIVE SortByPriority(_)
SortByPriority(files) ==
    IF files = <<>> THEN <<>>
    ELSE InsertByPriority(SortByPriority(SubSeq(files, 1, Len(files) - 1)),
                          files[Len(files)])

RECURSIVE Relevant(_)
Relevant(files) ==
    IF files = <<>> THEN <<>>
    ELSE (IF _should_skip(Chars[Head(files)]) THEN <<>> ELSE <<Head(files)>>)
         \o Relevant(Tail(files))

(***************************************************************************)
(* build_tree_string, by its length.  sorted() orders str by code point.   *)
(***************************************************************************)
Ascii == <<" ","!","\"","#","$","%","&","'","(",")","*","+",",","-",".","/","0","1","2","3","4","5","6","7","8","9",":",";","<","=",">","?","@","A","B","C","D","E","F","G","H","I","J","K","L","M","N","O","P","Q","R","S","T","U","V","W","X","Y","Z","[","\\","]","^","_","BACKTICK","a","b","c","d","e","f","g","h","i","j","k","l","m","n","o","p","q","r","s","t","u","v","w","x","y","z","{","|","}","~">>

Ord(c) == Find(Ascii, c) + 31

RECURSIVE StrLess(_, _)
StrLess(a, b) ==
    IF b = <<>> THEN FALSE
    ELSE IF a = <<>> THEN TRUE
    ELSE IF Head(a) = Head(b) THEN StrLess(Tail(a), Tail(b))
    ELSE Ord(Head(a)) < Ord(Head(b))

RECURSIVE InsertSorted(_, _)
InsertSorted(sorted, p) ==
    IF sorted = <<>> THEN <<p>>
    ELSE IF StrLess(Chars[p], Chars[Head(sorted)]) THEN <<p>> \o sorted
    ELSE <<Head(sorted)>> \o InsertSorted(Tail(sorted), p)

RECURSIVE Sorted(_)
Sorted(paths) ==
    IF paths = <<>> THEN <<>> ELSE InsertSorted(Sorted(Tail(paths)), Head(paths))

TreeLineLen(p) == 2 * Count(Chars[p], "/") + Len(Last(Split(Chars[p], "/")))

RECURSIVE SumLineLens(_)
SumLineLens(paths) ==
    IF paths = <<>> THEN 0 ELSE TreeLineLen(Head(paths)) + SumLineLens(Tail(paths))

build_tree_string_len(files) ==
    LET truncated == Len(files) > MAX_TREE_FILES
        paths == IF truncated THEN Take(Sorted(files), MAX_TREE_FILES) ELSE Sorted(files)
        joined == SumLineLens(paths) + Max(Len(paths) - 1, 0)
    IN  IF truncated
        THEN joined + Len(<<"\n",".",".","."," ","(">>) + Digits(Len(files) - MAX_TREE_FILES)
                    + Len(<<" ","m","o","r","e"," ","f","i","l","e","s",")">>)
        ELSE joined

(***************************************************************************)
(* fetch_file_content: the raw-file provider's answer is a status and a    *)
(* body, the body given by its length in characters, its length in bytes   *)
(* and whether it is all whitespace.  The result is None (ok FALSE) or the *)
(* text, by length and blankness.                                          *)
(***************************************************************************)
NoContent == [ok |-> FALSE, len |-> 0, blank |-> TRUE]

TruncatedMarker == <<"\n",".",".","."," ","(","t","r","u","n","c","a","t","e","d",")">>

fetch_file_content(resp) ==
    IF resp.status # 200 THEN NoContent
    ELSE IF resp.bytes > MAX_FILE_SIZE
    THEN [ok |-> TRUE, len |-> Min(resp.chars, MAX_FILE_SIZE) + Len(TruncatedMarker),
          blank |-> FALSE]
    ELSE [ok |-> TRUE, len |-> resp.chars, blank |-> resp.blank]

\* "not content or not content.strip()"
Unusable(content) == ~content.ok \/ content.len = 0 \/ content.blank


(***************************************************************************)
(* llm_client.py.  A JSON text is modelled by the value json.loads gives   *)
(* for it: its Python type and, for an object, what each of the keys of    *)
(* interest holds.  A member value is named by its JSON text, "" when the  *)
(* key is absent.                                                          *)
(***************************************************************************)
FieldNames == {"summary", "technologies", "structure", "extra"}

Absent == ""

\* type(json.loads(v)) for the member values of the model
PyType(v) ==
    CASE v = Absent -> "NoneType"
      [] v = "null" -> "NoneType"
      [] v = "true" -> "bool"
      [] v = "7" -> "int"
      [] v \in {"'A test project.'", "'Flat.'", "'Python'"} -> "str"
      [] v \in {"['Python']", "[]", "[7]"} -> "list"
      [] v = "{}" -> "dict"

MemberValues == {"null", "true", "7", "'A test project.'", "'Flat.'", "'Python'",
                 "['Python']", "[]", "[7]", "{}"}

NoFields == [k \in FieldNames |-> Absent]

\* answer_schema, lines 22-31
answer_schema ==
    [type |-> "object",
     properties |-> [summary |-> [type |-> "string", items |-> "", minItems |-> 0],
                     technologies |-> [type |-> "array", items |-> "string", minItems |-> 1],
                     structure |-> [type |-> "string", items |-> "", minItems |-> 0]],
     required |-> <<"title", "bullets", "confidence">>,
     additionalProperties |-> FALSE]

\* _get_client: whether the RuntimeError is raised
NoCredential(key) == key = "" \/ key = "your_key_here"

\* The assembled contents of the model and their SHA-256 digests.
Contents == {"content A", "content B"}

_cache_key(content) ==
    CASE content = "content A" -> "sha256 of A"
      [] content = "content B" -> "sha256 of B"

\* The key cache.memoize gives a call _call_llm(content_hash, repo_content):
\* both arguments (the function's name and the argument types are the same
\* for every call).
MemoKey(content_hash, content) == <<content_hash, content>>

ENOVAL == "ENOVAL"

(***************************************************************************)
(* _parse_response.  A raw text is a sequence of characters in which the   *)
(* token "JSON" stands for the text of a JSON document (doc says which)    *)
(* and any other character is itself.  json.loads accepts the text when    *)
(* it is the document with whitespace around it and nothing else.          *)
(***************************************************************************)
Fence == <<"BACKTICK", "BACKTICK", "BACKTICK">>

json_loads(text, doc) ==
    IF Strip(text) = <<"JSON">>
    THEN [ok |-> TRUE, data |-> doc]
    ELSE [ok |-> FALSE, data |-> doc]

Raise(error, field) ==
    [raised |-> TRUE, error |-> error, field |-> field, result |-> NoFields]

Return(result) == [raised |-> FALSE, error |-> "", field |-> "", result |-> result]

Defence(raw_text) ==
    LET text0 == Strip(raw_text)
        text1 == IF Find(text0, "\n") # 0 THEN Drop(text0, Find(text0, "\n"))
                 ELSE Drop(text0, 3)
        text2 == IF EndsWith(text1, Fence) THEN Take(text1, Len(text1) - 3) ELSE text1
    IN  IF StartsWith(text0, Fence) THEN Strip(text2) ELSE text0

_parse_response(raw) ==
    LET text == Defence(raw.text)
        loaded == json_loads(text, raw.doc)
        data == loaded.data
    IN  IF ~loaded.ok THEN Raise("JSONDecodeError", "")
        ELSE IF data.type # "dict" THEN Raise("AttributeError", "")
        ELSE IF PyType(data.fields["summary"]) # "str"
        THEN Raise("ValueError", "summary")
        ELSE IF PyType(data.fields["technologies"]) # "list"
        THEN Raise("ValueError", "technologies")
        ELSE IF PyType(data.fields["structure"]) # "str"
        THEN Raise("ValueError", "structure")
        ELSE Return([k \in FieldNames |->
                        IF k \in {"summary", "technologies", "structure"}
                        THEN data.fields[k] ELSE Absent])

(***************************************************************************)
(* app.py: the POST /summarize handler.                                    *)
(***************************************************************************)
\* _error, and what Flask answers when the view raises (debug off): a 500
\* page that is not the JSON envelope.
Envelope(status_code, message) ==
    [status |-> status_code, envelope |-> TRUE, message |-> message, result |-> NoFields]

Unhandled(error) ==
    [status |-> 500, envelope |-> FALSE, message |-> error, result |-> NoFields]

Ok200(result) == [status |-> 200, envelope |-> FALSE, message |-> "", result |-> result]

NoResponse == [status |-> 0, envelope |-> FALSE, message |-> "", result |-> NoFields]

\* request.get_json(silent=True): None unless the payload is JSON.
NoneBody == [type |-> "NoneType", falsy |-> TRUE, url_type |-> "", url |-> "", text |-> "null"]

get_json(p) == IF p.kind = "json" THEN p.body ELSE NoneBody

\* Lines 24-32.  proceed says whether the handler goes on to line 34.
Validate(p) ==
    LET body == get_json(p)
        github_url == Strip(Chars[body.url])
    IN  IF body.falsy
        THEN [proceed |-> FALSE,
              response |-> Envelope(400, "Missing or invalid 'github_url' in request body")]
        ELSE IF body.type # "dict"
        THEN [proceed |-> FALSE, response |-> Unhandled("AttributeError")]
        ELSE IF body.url_type # "str"
        THEN [proceed |-> FALSE,
              response |-> Envelope(400, "Missing or invalid 'github_url' in request body")]
        ELSE IF github_url = <<>>
        THEN [proceed |-> FALSE, response |-> Envelope(400, "'github_url' cannot be empty")]
        ELSE [proceed |-> TRUE, response |-> NoResponse]

\* Lines 37-47: the answer to an exception raised by fetch_repo_content.  An
\* exception is given by its class, whether that class is a ValueError, and the
\* status code of its .response (0 when it has none).
FetchErrorResponse(exc) ==
    LET status == IF exc.status_code = 0 THEN 500 ELSE exc.status_code
    IN  IF exc.is_value_error THEN Envelope(400, exc.message)
        ELSE IF status = 404
        THEN Envelope(404, "Repository not found (may be private or does not exist)")
        ELSE IF status = 403
        THEN Envelope(403, "GitHub API rate limit exceeded or access denied")
        ELSE Envelope(502, "Failed to fetch repository")

\* Lines 50-63: the answer to what summarize_repo returned or raised.
SummarizeResponse(out) ==
    IF ~out.raised THEN Ok200(out.result)
    ELSE IF out.error = "JSONDecodeError"
    THEN Envelope(502, "LLM returned invalid JSON response")
    ELSE IF out.error = "RuntimeError"
    THEN Envelope(500, "NEBIUS_API_KEY environment variable is not set")
    ELSE Envelope(502, "LLM summarization failed")

(***************************************************************************)
(* The state of a part of the program that a specification leaves alone.    *)
(***************************************************************************)
NoUrlInput == [empty |-> TRUE, host |-> "", segs |-> <<>>, git |-> FALSE, slash |-> FALSE]

NoUrlResult == [ok |-> FALSE, error |-> "", message |-> "", owner |-> <<>>, repo |-> <<>>]

UrlIdle == upc = "idle" /\ uin = NoUrlInput /\ uout = NoUrlResult

FetchIdle ==
    /\ fpc = "idle" /\ all_files = <<>> /\ relevant = <<>> /\ idx = 0
    /\ total_chars = 0 /\ parts = <<>> /\ fetched = <<>> /\ fcontent = NoContent


ClassIdle == cpc = "idle" /\ cpath = <<>> /\ cskip = FALSE /\ cprio = 0

NoRaw == [text |-> <<>>, doc |-> [type |-> "NoneType", value |-> "null", fields |-> NoFields]]

NoParse == [raised |-> FALSE, error |-> "", field |-> "", result |-> NoFields]

ParseIdle == ppc = "idle" /\ praw = NoRaw /\ pout = NoParse

NoPayload == [kind |-> "none", body |-> NoneBody]

NoFailure == [origin |-> "", class |-> "", is_value_error |-> FALSE, status_code |-> 0,
              message |-> ""]

AppIdle ==
    /\ apc = "idle" /\ payload = NoPayload /\ repo_content = ""
    /\ failure = NoFailure /\ response = NoResponse

Slots == 1..MaxCalls

IdleCall == [pc |-> "idle", repo_content |-> "", raw |-> "", response |-> NoResponse,
             late |-> FALSE, requested |-> FALSE]

Keys == { MemoKey(_cache_key(c), c) : c \in Contents }

EmptyCache == [k \in Keys |-> ENOVAL]

CallsIdle == calls = [s \in Slots |-> IdleCall]

LlmIdle ==
    /\ cache = EmptyCache /\ api_key = "" /\ sent = {} /\ returned = {} /\ settled = {}

notFetch == <<urlVars, parseVars, appVars, llmVars, calls>>

(***************************************************************************)
(* The URLs given to parse_github_url: "https://" host "/" segments, with  *)
(* an optional ".git" on the repository segment and an optional trailing   *)
(* slash; and the empty string.                                            *)
(***************************************************************************)
Https == <<"h","t","t","p","s",":","/","/">>

UrlHosts == { "github.com", "www.github.com", "gitlab.com", "github.com.evil.org" }

Owners == { "psf" }

Repos == { "requests", "b" }

ExtraSegments == { "tree", "main", "x.git" }

SeqsUpTo(S, n) == UNION { [1..k -> S] : k \in 0..n }

UrlPaths ==
    {<<>>} \cup { <<o>> : o \in Owners }
    \cup { <<o, r>> \o e : o \in Owners, r \in Repos, e \in SeqsUpTo(ExtraSegments, MaxExtra) }

UrlInputs ==
    [empty : {FALSE}, host : UrlHosts, segs : UrlPaths, git : BOOLEAN, slash : BOOLEAN]
    \cup [empty : {TRUE}, host : {""}, segs : {<<>>}, git : {FALSE}, slash : {FALSE}]

\* The text of an input: the ".git" goes on the repository segment.
BuildUrl(in) ==
    LET segs == [i \in 1..Len(in.segs) |->
                    IF in.git /\ i = 2 THEN Chars[in.segs[i]] \o GitSuffix
                    ELSE Chars[in.segs[i]]]
    IN  IF in.empty THEN <<>>
        ELSE Https \o Chars[in.host]
             \o (IF segs = <<>> THEN <<>> ELSE <<"/">> \o Join(segs, "/"))
             \o (IF in.slash THEN <<"/">> ELSE <<>>)

InitUrl ==
    /\ upc = "start"
    /\ uin \in UrlInputs
    /\ uout = NoUrlResult
    /\ FetchIdle /\ ClassIdle /\ ParseIdle /\ AppIdle /\ LlmIdle /\ CallsIdle

\* One call of parse_github_url.
ParseGithubUrl ==
    /\ upc = "start"
    /\ uout' = parse_github_url(BuildUrl(uin))
    /\ upc' = "done"
    /\ UNCHANGED <<uin, fetchVars, classVars, parseVars, appVars, llmVars, calls>>

NextUrl == ParseGithubUrl

SpecUrl == InitUrl /\ [][NextUrl]_vars

IsGithubInput ==
    ~uin.empty /\ uin.host \in {"github.com", "www.github.com"} /\ Len(uin.segs) >= 2

HasExtra == Len(uin.segs) > 2

\* C7 (as stated): every https://github.com/{owner}/{repo} input, in any
\* combination of www. prefix, .git suffix on the repository segment, trailing
\* slash and extra path segments, yields exactly (owner, repo); every input with
\* another host or fewer than two path segments, the empty string included, fails
\* with ValueError.
C7_AnyCombination ==
    upc = "done" =>
        /\ IsGithubInput =>
              uout.ok /\ uout.owner = Chars[uin.segs[1]] /\ uout.repo = Chars[uin.segs[2]]
        /\ ~IsGithubInput => ~uout.ok /\ uout.error = "ValueError"

\* C7 (amended): the pair is exactly (owner, repo) in every combination in which
\* a .git suffix, when present, ends the URL's path (no extra segment follows the
\* repository segment); with extra segments after a .git suffix the suffix stays
\* in the result, (owner, repo.git); other hosts, fewer than two segments and the
\* empty string fail with ValueError.
C7_GitSuffixOnlyAtEnd ==
    upc = "done" =>
        /\ IsGithubInput /\ ~(uin.git /\ HasExtra) =>
              uout.ok /\ uout.owner = Chars[uin.segs[1]] /\ uout.repo = Chars[uin.segs[2]]
        /\ IsGithubInput /\ uin.git /\ HasExtra =>
              uout.ok /\ uout.owner = Chars[uin.segs[1]]
              /\ uout.repo = Chars[uin.segs[2]] \o GitSuffix
        /\ ~IsGithubInput => ~uout.ok /\ uout.error = "ValueError"

\* A www. input with .git suffix and trailing slash was parsed to (owner, repo).
C7_Witness ==
    /\ upc = "done" /\ IsGithubInput /\ uin.git /\ uin.slash /\ ~HasExtra
    /\ uin.host = "www.github.com"
    /\ uout.ok /\ uout.repo = Chars[uin.segs[2]]

FileResponses ==
    { [status |-> 404, chars |-> 9, bytes |-> 9, blank |-> FALSE],
      [status |-> 200, chars |-> 0, bytes |-> 0, blank |-> TRUE],
      [status |-> 200, chars |-> 3, bytes |-> 3, blank |-> TRUE],
      [status |-> 200, chars |-> 5, bytes |-> 5, blank |-> FALSE],
      [status |-> 200, chars |-> 29850, bytes |-> 29850, blank |-> FALSE],
      [status |-> 200, chars |-> 29950, bytes |-> 29950, blank |-> FALSE],
      [status |-> 200, chars |-> 60000, bytes |-> 60000, blank |-> FALSE] }

(***************************************************************************)
(* fetch_repo_content.  A section is recorded with its kind, its path, its *)
(* length and the number of characters of file content in its body.        *)
(***************************************************************************)
SampleUrl == <<"h","t","t","p","s",":","/","/","g","i","t","h","u","b",".","c","o","m","/","p","s","f","/","r","e","q","u","e","s","t","s">>

HeaderLen(owner, repo, files) ==
    Len(<<"#"," ","R","e","p","o","s","i","t","o","r","y",":"," ">>) + Len(owner) + 1 + Len(repo)
    + Len(<<"\n","\n","#","#"," ","D","i","r","e","c","t","o","r","y"," ","S","t","r","u","c","t","u","r","e","\n","BACKTICK","BACKTICK","BACKTICK","\n">>)
    + build_tree_string_len(files) + Len(<<"\n","BACKTICK","BACKTICK","BACKTICK","\n">>)

SectionLen(path, bodyLen) ==
    Len(<<"\n","#","#"," ","F","i","l","e",":"," ">>) + Len(Chars[path]) + Len(<<"\n","BACKTICK","BACKTICK","BACKTICK","\n">>) + bodyLen + Len(<<"\n","BACKTICK","BACKTICK","BACKTICK","\n">>)

TruncatedSectionLen(path, bodyLen) ==
    Len(<<"\n","#","#"," ","F","i","l","e",":"," ">>) + Len(Chars[path]) + Len(<<"\n","BACKTICK","BACKTICK","BACKTICK","\n">>) + bodyLen
    + Len(<<"\n",".",".","."," ","(","t","r","u","n","c","a","t","e","d",")","\n","BACKTICK","BACKTICK","BACKTICK","\n">>)

\* content[:n] by length, for n >= 0
SliceLen(len, n) == Min(len, n)

FetchPaths ==
    { "README.md", "setup.py", "main.py", "src/app.py",
      "node_modules/pkg/index.js", "logo.png",
      "src/main/java/com/example/application/services/UserAccountServiceImpl.java",
      "docs/reference/architecture/decisions/2021/backend/0042-use-postgresql-for-the-primary-datastore-of-accounts.md" }

IsInjective(s) == \A i, j \in 1..Len(s) : s[i] = s[j] => i = j

\* The blob entries the tree provider returns: distinct paths, in any order.
Trees == { t \in SeqsUpTo(FetchPaths, MaxFiles) : IsInjective(t) }

\* Lines 135-143: parse the URL, fetch the tree, filter, sort, emit the header.
FetchBegin ==
    /\ fpc = "start"
    /\ LET parsed == parse_github_url(SampleUrl)
           header == HeaderLen(parsed.owner, parsed.repo, all_files)
       IN  /\ parsed.ok
           /\ relevant' = SortByPriority(Relevant(all_files))
           /\ parts' = <<[kind |-> "header", path |-> "", len |-> header, body |-> 0]>>
           /\ total_chars' = header
    /\ idx' = 1
    /\ fpc' = "loop"
    /\ UNCHANGED <<all_files, fetched, fcontent, classVars, notFetch>>

\* Lines 145-147 and 162: the list is exhausted or the budget is used up.
LoopExit ==
    /\ fpc = "loop"
    /\ idx > Len(relevant) \/ total_chars >= MAX_CONTENT_CHARS
    /\ fpc' = "done"
    /\ UNCHANGED <<all_files, relevant, idx, total_chars, parts, fetched, fcontent, classVars, notFetch>>

LoopGuard == fpc = "loop" /\ idx <= Len(relevant) /\ total_chars < MAX_CONTENT_CHARS

\* Lines 148-150: nothing usable came back; next file.
LoopSkip ==
    /\ LoopGuard
    /\ \E resp \in FileResponses :
          /\ Unusable(fetch_file_content(resp))
          /\ fcontent' = fetch_file_content(resp)
          /\ fetched' = Append(fetched, relevant[idx])
          /\ idx' = idx + 1
    /\ UNCHANGED <<fpc, all_files, relevant, total_chars, parts, classVars, notFetch>>

\* Lines 151-152, 159-160: the full section fits.
LoopAppend ==
    /\ LoopGuard
    /\ \E resp \in FileResponses :
          LET content == fetch_file_content(resp)
              path == relevant[idx]
              section == SectionLen(path, content.len)
          IN  /\ ~Unusable(content)
              /\ fcontent' = content
              /\ ~(total_chars + section > MAX_CONTENT_CHARS)
              /\ fetched' = Append(fetched, path)
              /\ parts' = Append(parts, [kind |-> "file", path |-> path,
                                         len |-> section, body |-> content.len])
              /\ total_chars' = total_chars + section
              /\ idx' = idx + 1
    /\ UNCHANGED <<fpc, all_files, relevant, classVars, notFetch>>

\* LoopTruncate without the break of line 158: the loop goes on to the next file.
LoopTruncate_Continues ==
    /\ LoopGuard
    /\ \E resp \in FileResponses :
          LET content == fetch_file_content(resp)
              path == relevant[idx]
              remaining == MAX_CONTENT_CHARS - total_chars
              body == SliceLen(content.len, remaining - 100)
              section == TruncatedSectionLen(path, body)
          IN  /\ ~Unusable(content)
              /\ fcontent' = content
              /\ total_chars + SectionLen(path, content.len) > MAX_CONTENT_CHARS
              /\ remaining > 200
              /\ fetched' = Append(fetched, path)
              /\ parts' = Append(parts, [kind |-> "truncated", path |-> path,
                                         len |-> section, body |-> body])
              /\ total_chars' = total_chars + section
    /\ idx' = idx + 1
    /\ UNCHANGED <<fpc, all_files, relevant, classVars, notFetch>>

\* Lines 152-158 with remaining > 200: the truncated section, then stop.
LoopTruncate ==
    /\ LoopGuard
    /\ \E resp \in FileResponses :
          LET content == fetch_file_content(resp)
              path == relevant[idx]
              remaining == MAX_CONTENT_CHARS - total_chars
              body == SliceLen(content.len, remaining - 100)
              section == TruncatedSectionLen(path, body)
          IN  /\ ~Unusable(content)
              /\ fcontent' = content
              /\ total_chars + SectionLen(path, content.len) > MAX_CONTENT_CHARS
              /\ remaining > 200
              /\ fetched' = Append(fetched, path)
              /\ parts' = Append(parts, [kind |-> "truncated", path |-> path,
                                         len |-> section, body |-> body])
              /\ total_chars' = total_chars + section
    /\ fpc' = "done"
    /\ UNCHANGED <<all_files, relevant, idx, classVars, notFetch>>

\* Lines 152-154, 158 with remaining <= 200: nothing is emitted, then stop.
LoopDiscard ==
    /\ LoopGuard
    /\ \E resp \in FileResponses :
          LET content == fetch_file_content(resp)
              path == relevant[idx]
              remaining == MAX_CONTENT_CHARS - total_chars
          IN  /\ ~Unusable(content)
              /\ fcontent' = content
              /\ total_chars + SectionLen(path, content.len) > MAX_CONTENT_CHARS
              /\ ~(remaining > 200)
              /\ fetched' = Append(fetched, path)
    /\ fpc' = "done"
    /\ UNCHANGED <<all_files, relevant, idx, total_chars, parts, classVars, notFetch>>

InitFetch ==
    /\ fpc = "start"
    /\ all_files \in Trees
    /\ relevant = <<>> /\ idx = 0 /\ total_chars = 0 /\ parts = <<>> /\ fetched = <<>>
    /\ fcontent = NoContent
    /\ ClassIdle /\ UrlIdle /\ ParseIdle /\ AppIdle /\ LlmIdle /\ CallsIdle

(***************************************************************************)
(* One call of _should_skip and of _file_priority on a path given by its   *)
(* segments.                                                               *)
(***************************************************************************)
ClassifySegments ==
    { "src", "vendor", "Vendor", "README.md", "readme", "package.json", "MAKEFILE",
      "main.py", "image.png", "image.PNG", "lasso", "go.sum", "workflows" }

ClassifyPaths == SeqsUpTo(ClassifySegments, MaxSegs) \ {<<>>}

PathOf(segs) == Join([i \in 1..Len(segs) |-> Chars[segs[i]]], "/")

InitClassify ==
    /\ cpc = "start"
    /\ cpath \in ClassifyPaths
    /\ cskip = FALSE /\ cprio = 0
    /\ FetchIdle /\ UrlIdle /\ ParseIdle /\ AppIdle /\ LlmIdle /\ CallsIdle

Classify ==
    /\ cpc = "start"
    /\ cskip' = _should_skip(PathOf(cpath))
    /\ cprio' = _file_priority(PathOf(cpath))
    /\ cpc' = "done"
    /\ UNCHANGED <<cpath, fetchVars, notFetch>>

NextFetch ==
    \/ FetchBegin
    \/ LoopExit
    \/ LoopSkip
    \/ LoopAppend
    \/ LoopTruncate
    \/ LoopDiscard
    \/ Classify

SpecFetch == (InitFetch \/ InitClassify) /\ [][NextFetch]_vars

RECURSIVE SumLens(_)
SumLens(ps) == IF ps = <<>> THEN 0 ELSE Head(ps).len + SumLens(Tail(ps))

\* len("".join(parts))
ResultLen == SumLens(parts)

\* C1: the string fetch_repo_content returns has at most MAX_CONTENT_CHARS
\* characters, whatever the tree and the fetched contents.
C1_ResultWithinBudget == fpc = "done" => ResultLen <= MAX_CONTENT_CHARS

(***************************************************************************)
(* C8                                                                      *)
(***************************************************************************)
\* The claim's three cases, on the segments of a path.
C8_Excluded(segs) ==
    \/ \E i \in 1..(Len(segs) - 1) : Chars[segs[i]] \in SKIP_DIRS
    \/ Chars[Last(segs)] \in SKIP_FILES
    \/ \E ext \in SKIP_EXTENSIONS :
          LET name == Chars[Last(segs)]
          IN  Len(name) >= Len(ext)
              /\ \A k \in 1..Len(ext) : name[Len(name) - Len(ext) + k] = ext[k]

\* The paths of FetchPaths that the claim excludes: one under node_modules, one
\* with the extension .png.
C8_ExcludedFetchPaths == { "node_modules/pkg/index.js", "logo.png" }

EmittedPaths == { parts[i].path : i \in { j \in 1..Len(parts) : parts[j].kind # "header" } }

FetchedPaths == { fetched[i] : i \in 1..Len(fetched) }

\* C8: _should_skip is true exactly on the paths with an excluded directory
\* among the non-final segments, an excluded final segment, or a final segment
\* ending with an excluded extension; and fetch_repo_content fetches and emits
\* only paths on which it is false.
C8_SkipExactlyExcluded ==
    /\ cpc = "done" => (cskip <=> C8_Excluded(cpath))
    /\ \A p \in FetchedPaths \cup EmittedPaths :
          /\ p \notin C8_ExcludedFetchPaths
          /\ ~_should_skip(Chars[p])

\* A run over a tree with both excluded paths and a third file, which was
\* fetched and emitted.
C8_Witness ==
    /\ fpc = "done"
    /\ C8_ExcludedFetchPaths \subseteq { all_files[i] : i \in 1..Len(all_files) }
    /\ FetchedPaths # {} /\ EmittedPaths # {}

(***************************************************************************)
(* C9                                                                      *)
(***************************************************************************)
\* The claim's rule, on the segments of a path.
C9_Rank(segs) ==
    LET name == Lower(Chars[Last(segs)])
    IN  IF StartsWith(name, <<"r","e","a","d","m","e">>) THEN 0
        ELSE IF name \in _CONFIG_NAMES_LOWER THEN 1
        ELSE IF Len(segs) = 1 THEN 2
        ELSE 3 + (Len(segs) - 1)

\* The classes of the paths of FetchPaths, by the claim: readme, configuration
\* file, root-level file, and the nested files by depth.
C9_FetchRank(p) ==
    CASE p = "README.md" -> 0
      [] p = "setup.py" -> 1
      [] p \in {"main.py", "logo.png"} -> 2
      [] p = "src/app.py" -> 4
      [] p = "node_modules/pkg/index.js" -> 5
      [] p = "src/main/java/com/example/application/services/UserAccountServiceImpl.java" -> 10
      [] p = "docs/reference/architecture/decisions/2021/backend/0042-use-postgresql-for-the-primary-datastore-of-accounts.md" -> 9

\* C9: _file_priority is 0 for a readme, 1 for a configuration file name, 2 for
\* another root-level file, 3 + separators otherwise; so in the sorted list no
\* file of a later class comes before one of an earlier class.
C9_PriorityOrder ==
    /\ cpc = "done" => cprio = C9_Rank(cpath)
    /\ fpc \in {"loop", "done"} =>
          \A i, j \in 1..Len(relevant) :
              i < j => C9_FetchRank(relevant[i]) <= C9_FetchRank(relevant[j])

\* The tree listed the nested file first and the readme last; the sort put the
\* readme first, the configuration file second.
C9_Witness ==
    /\ fpc = "loop"
    /\ all_files = <<"src/app.py", "setup.py", "README.md">>
    /\ relevant = <<"README.md", "setup.py", "src/app.py">>

(***************************************************************************)
(* C11                                                                     *)
(***************************************************************************)
\* A step of the loop that fetched a non-blank content whose full section
\* takes the running total above MAX_CONTENT_CHARS.
C11_Overflows ==
    /\ LoopGuard
    /\ fetched' = Append(fetched, relevant[idx])
    /\ ~Unusable(fcontent')
    /\ total_chars + SectionLen(relevant[idx], fcontent'.len) > MAX_CONTENT_CHARS

\* What the claim says such a step does.
C11_EndsAtThatFile ==
    C11_Overflows =>
        LET path == relevant[idx]
            remaining == MAX_CONTENT_CHARS - total_chars
            body == Min(fcontent'.len, remaining - 100)
        IN  /\ fpc' = "done"
            /\ IF remaining > 200
               THEN /\ Len(parts') = Len(parts) + 1
                    /\ SubSeq(parts', 1, Len(parts)) = parts
                    /\ Last(parts').kind = "truncated"
                    /\ Last(parts').path = path
                    /\ Last(parts').body = body
                    /\ Last(parts').len =
                          SectionLen(path, body) + Len(TruncatedMarker)
               ELSE parts' = parts

\* Once the loop has ended nothing more is fetched or emitted.
C11_NothingLater == fpc = "done" => fetched' = fetched /\ parts' = parts

\* A truncated section is the last section.
C11_TruncatedIsLast ==
    \A i \in 1..Len(parts) : parts[i].kind = "truncated" => i = Len(parts)

\* C11: when the full section of a non-blank fetched file would take the
\* running total above 60,000, the loop ends at that file; with remaining =
\* 60,000 - running total it emits one truncated section, whose body is the
\* first remaining - 100 characters of the content followed by the truncation
\* marker, if remaining > 200, and nothing otherwise; no later file is fetched
\* or emitted, so a truncated section is the only one and the last section.
C11_TruncateOrDiscardThenStop ==
    /\ [](C11_TruncatedIsLast)
    /\ [][C11_EndsAtThatFile /\ C11_NothingLater]_vars

\* The second of three relevant files overflowed with more than 200 characters
\* of budget left: its section is cut to remaining - 100 characters of content,
\* it is the last section, and the third file was never fetched.
C11_Witness ==
    /\ fpc = "done"
    /\ Len(relevant) = 3 /\ idx = 2 /\ Len(fetched) = 2
    /\ Len(parts) = 3
    /\ parts[3].kind = "truncated"
    /\ parts[3].body = (MAX_CONTENT_CHARS - (total_chars - parts[3].len)) - 100
    /\ parts[3].body < fcontent.len

(***************************************************************************)
(* One call of _parse_response on a raw text.                              *)
(***************************************************************************)
ScalarDocs ==
    { [type |-> PyType(v), value |-> v, fields |-> NoFields] :
        v \in {"[]", "['Python']", "'Flat.'", "7", "true", "null"} }

ObjectDocs ==
    { [type |-> "dict", value |-> "{...}", fields |-> f] :
        f \in { g \in [FieldNames -> MemberValues \cup {Absent}] :
                  /\ g["summary"] \in {Absent, "null", "'A test project.'", "7"}
                  /\ g["technologies"] \in {Absent, "['Python']", "[]", "'Python'", "{}"}
                  /\ g["structure"] \in {Absent, "'Flat.'", "[7]"}
                  /\ g["extra"] \in {Absent, "true"} } }

Docs == ScalarDocs \cup ObjectDocs

\* The texts around the document: bare, padded, fenced with and without a tag,
\* fenced on one line, fence left open, followed by other text, and no JSON.
RawTexts ==
    { <<"JSON">>,
      <<" ", "JSON", "\n">>,
      <<"BACKTICK","BACKTICK","BACKTICK","j","s","o","n","\n">> \o <<"JSON">> \o <<"\n","BACKTICK","BACKTICK","BACKTICK">>,
      <<"BACKTICK","BACKTICK","BACKTICK","\n">> \o <<"JSON">> \o <<"\n","BACKTICK","BACKTICK","BACKTICK","\n">>,
      <<"BACKTICK","BACKTICK","BACKTICK">> \o <<"JSON">> \o <<"BACKTICK","BACKTICK","BACKTICK">>,
      <<"BACKTICK","BACKTICK","BACKTICK","j","s","o","n","\n">> \o <<"JSON">>,
      <<"BACKTICK","BACKTICK","BACKTICK","j","s","o","n"," ">> \o <<"JSON">> \o <<"BACKTICK","BACKTICK","BACKTICK">>,
      <<"JSON">> \o <<" ","a","n","d"," ","m","o","r","e">>,
      <<"n","o","t"," ","j","s","o","n"," ","a","t"," ","a","l","l">> }

Raws == [text : RawTexts, doc : Docs]

InitParse ==
    /\ ppc = "start"
    /\ praw \in Raws
    /\ pout = NoParse
    /\ FetchIdle /\ ClassIdle /\ UrlIdle /\ AppIdle /\ LlmIdle /\ CallsIdle

ParseResponse ==
    /\ ppc = "start"
    /\ pout' = _parse_response(praw)
    /\ ppc' = "done"
    /\ UNCHANGED <<praw, fetchVars, classVars, urlVars, appVars, llmVars, calls>>

NextParse == ParseResponse

SpecParse == InitParse /\ [][NextParse]_vars

\* The trimmed, de-fenced body of the raw text parses as JSON.
C4_BodyParses == json_loads(Defence(praw.text), praw.doc).ok

\* The first field, in the order summary, technologies, structure, that the
\* parsed value does not hold with the required type; "" when all three do.
C4_FirstOffending(doc) ==
    IF doc.type # "dict" \/ PyType(doc.fields["summary"]) # "str" THEN "summary"
    ELSE IF PyType(doc.fields["technologies"]) # "list" THEN "technologies"
    ELSE IF PyType(doc.fields["structure"]) # "str" THEN "structure"
    ELSE ""

\* C4: when the body parses as JSON, of whatever type, _parse_response either
\* returns exactly summary, technologies and structure with the parsed values,
\* or raises ValueError naming the first offending field; nothing else.
C4_ReturnOrSchemaViolation ==
    ppc = "done" /\ C4_BodyParses =>
        IF C4_FirstOffending(praw.doc) = ""
        THEN /\ ~pout.raised
             /\ \A k \in {"summary", "technologies", "structure"} :
                   pout.result[k] = praw.doc.fields[k]
             /\ pout.result["extra"] = Absent
        ELSE /\ pout.raised
             /\ pout.error = "ValueError"
             /\ pout.field = C4_FirstOffending(praw.doc)

(***************************************************************************)
(* Concurrent requests in summarize_repo.  The server handles each request *)
(* in a thread of its own; a slot is a thread, taking request after        *)
(* request.  A request enters here at app.py line 51 with the content the  *)
(* assembler gave it.  cache.memoize is cache.get, then on a miss the      *)
(* call and cache.set: three steps other threads interleave with.          *)
(*   late      - the content was settled when the call began               *)
(*   requested - the call made a request to the completion service         *)
(***************************************************************************)
ApiKeys == {"", "your_key_here", "k-123"}

GoodDoc ==
    [type |-> "dict", value |-> "{...}",
     fields |-> [summary |-> "'A test project.'", technologies |-> "['Python']",
                 structure |-> "'Flat.'", extra |-> Absent]]

\* The texts the completion service returns in this specification, by name.
RawNames == {"good", "prose"}

RawOf(name) ==
    CASE name = "good" -> [text |-> <<"JSON">>, doc |-> GoodDoc]
      [] name = "fenced" -> [text |-> <<"BACKTICK","BACKTICK","BACKTICK","j","s","o","n","\n">> \o <<"JSON">> \o <<"\n","BACKTICK","BACKTICK","BACKTICK">>, doc |-> GoodDoc]
      [] name = "prose" -> [text |-> <<"n","o","t"," ","j","s","o","n"," ","a","t"," ","a","l","l">>, doc |-> NoRaw.doc]
      [] name = "array" ->
            [text |-> <<"JSON">>,
             doc |-> [type |-> "list", value |-> "['Python']", fields |-> NoFields]]
      [] name = "no summary" ->
            [text |-> <<"JSON">>,
             doc |-> [GoodDoc EXCEPT !.fields["summary"] = Absent]]

\* The request _call_llm sends, lines 53-78.
CompletionRequest(content) ==
    [model |-> "meta-llama/Llama-3.3-70B-Instruct", user |-> content,
     strict |-> TRUE, schema |-> answer_schema]

KeyOf(call) == MemoKey(_cache_key(call.repo_content), call.repo_content)

\* summarize_repo line 110 and app.py lines 50-63, for the raw text in hand.
Answer(raw) == SummarizeResponse(_parse_response(RawOf(raw)))

Init ==
    /\ api_key \in ApiKeys
    /\ cache = EmptyCache
    /\ calls = [s \in Slots |-> IdleCall]
    /\ sent = {} /\ returned = {} /\ settled = {}
    /\ FetchIdle /\ ClassIdle /\ UrlIdle /\ ParseIdle /\ AppIdle

llmOthers == <<fetchVars, classVars, urlVars, parseVars, appVars, api_key>>

\* app.py line 51, llm_client.py line 108: summarize_repo is entered.
Summarize(s) ==
    /\ calls[s].pc = "idle"
    /\ \E c \in Contents :
          calls' = [calls EXCEPT ![s] =
                       [IdleCall EXCEPT !.pc = "lookup", !.repo_content = c,
                                        !.late = (c \in settled)]]
    /\ UNCHANGED <<cache, sent, returned, settled, llmOthers>>

\* memoize: the key is in the cache; the stored text is parsed and answered.
MemoHit(s) ==
    /\ calls[s].pc = "lookup"
    /\ cache[KeyOf(calls[s])] # ENOVAL
    /\ calls' = [calls EXCEPT ![s].pc = "responded",
                              ![s].raw = cache[KeyOf(calls[s])],
                              ![s].response = Answer(cache[KeyOf(calls[s])])]
    /\ UNCHANGED <<cache, sent, returned, settled, llmOthers>>

\* memoize: the key is not in the cache; _call_llm's body runs next.
MemoMiss(s) ==
    /\ calls[s].pc = "lookup"
    /\ cache[KeyOf(calls[s])] = ENOVAL
    /\ calls' = [calls EXCEPT ![s].pc = "call"]
    /\ UNCHANGED <<cache, sent, returned, settled, llmOthers>>

\* _get_client raises RuntimeError: answered 500, nothing sent, nothing stored.
CallConfigError(s) ==
    /\ calls[s].pc = "call"
    /\ NoCredential(api_key)
    /\ calls' = [calls EXCEPT ![s].pc = "responded",
                              ![s].response = SummarizeResponse(Raise("RuntimeError", ""))]
    /\ UNCHANGED <<cache, sent, returned, settled, llmOthers>>

\* The completion service returns a text.
CallReturns(s) ==
    /\ calls[s].pc = "call"
    /\ ~NoCredential(api_key)
    /\ \E raw \in RawNames :
          /\ calls' = [calls EXCEPT ![s].pc = "store", ![s].raw = raw,
                                    ![s].requested = TRUE]
          /\ returned' = returned \cup {<<calls[s].repo_content, raw>>}
    /\ sent' = sent \cup {CompletionRequest(calls[s].repo_content)}
    /\ UNCHANGED <<cache, settled, llmOthers>>

CallFails_CachesError(s) ==
    /\ calls[s].pc = "call"
    /\ ~NoCredential(api_key)
    /\ calls' = [calls EXCEPT ![s].pc = "responded", ![s].requested = TRUE,
                              ![s].response = SummarizeResponse(Raise("APIError", ""))]
    /\ cache' = [cache EXCEPT ![KeyOf(calls[s])] = "prose"]
    /\ sent' = sent \cup {CompletionRequest(calls[s].repo_content)}
    /\ UNCHANGED <<returned, settled, llmOthers>>

\* The completion request fails or times out: the exception leaves memoize
\* before cache.set, and the handler answers 502.
CallFails(s) ==
    /\ calls[s].pc = "call"
    /\ ~NoCredential(api_key)
    /\ calls' = [calls EXCEPT ![s].pc = "responded", ![s].requested = TRUE,
                              ![s].response = SummarizeResponse(Raise("APIError", ""))]
    /\ sent' = sent \cup {CompletionRequest(calls[s].repo_content)}
    /\ UNCHANGED <<cache, returned, settled, llmOthers>>

MemoStore_NoWrite(s) ==
    /\ calls[s].pc = "store"
    /\ settled' = settled \cup {calls[s].repo_content}
    /\ calls' = [calls EXCEPT ![s].pc = "responded",
                              ![s].response = Answer(calls[s].raw)]
    /\ UNCHANGED <<cache, sent, returned, llmOthers>>

\* memoize: cache.set under the key, then the text is parsed and answered.
MemoStore(s) ==
    /\ calls[s].pc = "store"
    /\ cache' = [cache EXCEPT ![KeyOf(calls[s])] = calls[s].raw]
    /\ settled' = settled \cup {calls[s].repo_content}
    /\ calls' = [calls EXCEPT ![s].pc = "responded",
                              ![s].response = Answer(calls[s].raw)]
    /\ UNCHANGED <<sent, returned, llmOthers>>

\* The response is out; the thread takes the next request.
Finish(s) ==
    /\ calls[s].pc = "responded"
    /\ calls' = [calls EXCEPT ![s] = IdleCall]
    /\ UNCHANGED <<cache, sent, returned, settled, llmOthers>>

Next ==
    \E s \in Slots :
        \/ Summarize(s)
        \/ MemoHit(s)
        \/ MemoMiss(s)
        \/ CallConfigError(s)
        \/ CallReturns(s)
        \/ CallFails(s)
        \/ MemoStore(s)
        \/ Finish(s)

Spec == Init /\ [][Next]_vars

(***************************************************************************)
(* C2                                                                      *)
(***************************************************************************)
\* C2: a call that begins after a call for the same content has had its
\* completion request answered and stored makes no completion request: it
\* answers from the text the cache holds under the content's fingerprint.
C2_LaterCallUsesCache ==
    \A s \in Slots :
        calls[s].late =>
            /\ ~calls[s].requested
            /\ calls[s].pc \in {"lookup", "responded"}
            /\ calls[s].pc = "responded" =>
                  /\ <<calls[s].repo_content, calls[s].raw>> \in returned
                  /\ calls[s].response = Answer(calls[s].raw)

\* Both contents have been settled, and a call that began after its content
\* was settled has answered 200 without a request.
C2_Witness ==
    /\ settled = Contents
    /\ \E s \in Slots :
          /\ calls[s].late /\ calls[s].pc = "responded" /\ ~calls[s].requested
          /\ calls[s].response.status = 200

(***************************************************************************)
(* C3                                                                      *)
(***************************************************************************)
\* The elements of a sequence.
Range(seq) == { seq[i] : i \in 1..Len(seq) }

\* C3: every request sent to the completion service carries a schema whose
\* required list is exactly its declared properties summary, technologies and
\* structure, with technologies a non-empty array of strings and additional
\* properties forbidden.
C3_SchemaRequiresDeclared ==
    \A m \in sent :
        /\ DOMAIN m.schema.properties = {"summary", "technologies", "structure"}
        /\ Range(m.schema.required) = DOMAIN m.schema.properties
        /\ m.schema.properties["technologies"].type = "array"
        /\ m.schema.properties["technologies"].items = "string"
        /\ m.schema.properties["technologies"].minItems >= 1
        /\ m.schema.additionalProperties = FALSE

(***************************************************************************)
(* C10                                                                     *)
(***************************************************************************)
\* Every cache entry is a text a successful completion call returned for the
\* content of its key, under that content's fingerprint.
CacheFromSuccess ==
    \A k \in Keys :
        cache[k] # ENOVAL => k[1] = _cache_key(k[2]) /\ <<k[2], cache[k]>> \in returned

\* A step in which the completion call of s fails: s is answered 502 in the
\* error envelope, and the cache, the other requests and the record of
\* returned texts are as they were.
FailureIsLocal ==
    \A s \in Slots :
        (calls[s].pc = "call" /\ calls'[s].pc = "responded" /\ calls'[s].requested) =>
            /\ cache' = cache
            /\ returned' = returned /\ settled' = settled
            /\ \A t \in Slots \ {s} : calls'[t] = calls[t]
            /\ calls'[s].response.status = 502 /\ calls'[s].response.envelope

\* C10: under any interleaving, a failed completion call writes nothing to the
\* cache and is an error for its own request only; the cache only ever holds
\* texts returned by successful calls for the content of the key.
C10_FailureIsolated == [](CacheFromSuccess) /\ [][FailureIsLocal]_vars

\* One request for a content failed at the completion service (502) while
\* another request for the same content was answered 200 from a stored text.
C10_Witness ==
    \E s, t \in Slots :
        /\ s # t /\ calls[s].repo_content = calls[t].repo_content
        /\ calls[s].pc = "responded" /\ calls[s].requested
        /\ calls[s].response.status = 502
        /\ calls[s].response.message = "LLM summarization failed"
        /\ calls[t].pc = "responded" /\ calls[t].response.status = 200
        /\ cache[KeyOf(calls[t])] = "good"

(***************************************************************************)
(* One POST /summarize from the request to the response, alone in the      *)
(* server: validation, fetch_repo_content, summarize_repo.                 *)
(***************************************************************************)
Body(type, falsy, url_type, u, text) ==
    [type |-> type, falsy |-> falsy, url_type |-> url_type, url |-> u, text |-> text]

\* JSON bodies, each with the Python value get_json gives: its type, whether
\* it is falsy, and the type and text of its github_url member.
Bodies ==
    { Body("NoneType", TRUE, "", "", "null"),
      Body("bool", TRUE, "", "", "false"),
      Body("bool", FALSE, "", "", "true"),
      Body("int", TRUE, "", "", "0"),
      Body("int", FALSE, "", "", "5"),
      Body("str", TRUE, "", "", "''"),
      Body("str", FALSE, "", "", "'abc'"),
      Body("list", TRUE, "", "", "[]"),
      Body("list", FALSE, "", "", "['https://github.com/psf/requests']"),
      Body("dict", TRUE, "", "", "{}"),
      Body("dict", FALSE, "NoneType", "", "{'foo': 'bar'}"),
      Body("dict", FALSE, "NoneType", "", "{'github_url': null}"),
      Body("dict", FALSE, "int", "", "{'github_url': 5}"),
      Body("dict", FALSE, "str", "", "{'github_url': ''}"),
      Body("dict", FALSE, "str", "   ", "{'github_url': '   '}"),
      Body("dict", FALSE, "str", "https://github.com/psf/requests",
           "{'github_url': 'https://github.com/psf/requests'}"),
      Body("dict", FALSE, "str", "https://github.com/psf",
           "{'github_url': 'https://github.com/psf'}"),
      Body("dict", FALSE, "str", "https://gitlab.com/a/b",
           "{'github_url': 'https://gitlab.com/a/b'}") }

Payloads ==
    { [kind |-> "none", body |-> NoneBody], [kind |-> "text", body |-> NoneBody] }
    \cup { [kind |-> "json", body |-> b] : b \in Bodies }

Exception(origin, class, is_value_error, status_code, message) ==
    [origin |-> origin, class |-> class, is_value_error |-> is_value_error,
     status_code |-> status_code, message |-> message]

\* What fetch_repo_content can raise after the URL is parsed: raise_for_status
\* on the tree response (line 92), requests.get failing or timing out (lines
\* 91, 118), resp.json() on a body that is not JSON (line 93: requests'
\* JSONDecodeError, a ValueError), .get on a JSON body that is not an object.
ProviderFailures ==
    { Exception("fetch_repo_tree", "HTTPError", FALSE, s, "") : s \in {401, 403, 404, 429, 500} }
    \cup { Exception("fetch_repo_tree", "ConnectionError", FALSE, 0, ""),
           Exception("fetch_repo_tree", "JSONDecodeError", TRUE, 0, "Expecting value"),
           Exception("fetch_repo_tree", "AttributeError", FALSE, 0, ""),
           Exception("fetch_file_content", "Timeout", FALSE, 0, "") }

AppRawNames == {"good", "fenced", "prose", "array", "no summary"}

\* The cache as earlier requests may have left it.
AppCaches ==
    { [k \in Keys |-> IF k[2] \in S THEN r ELSE ENOVAL] :
        S \in SUBSET Contents, r \in {"good", "prose"} }

InitApp ==
    /\ apc = "start"
    /\ payload \in Payloads
    /\ repo_content = "" /\ failure = NoFailure /\ response = NoResponse
    /\ api_key \in ApiKeys
    /\ cache \in AppCaches
    /\ sent = {} /\ returned = {} /\ settled = {}
    /\ CallsIdle /\ FetchIdle /\ ClassIdle /\ UrlIdle /\ ParseIdle

appOthers == <<fetchVars, classVars, urlVars, parseVars, calls, api_key, settled>>

github_url == Strip(Chars[payload.body.url])

\* Lines 24-33: the body is refused, or the view raises, or it goes on.
AppValidate ==
    /\ apc = "start"
    /\ response' = Validate(payload).response
    /\ apc' = IF Validate(payload).proceed THEN "fetch" ELSE "done"
    /\ UNCHANGED <<payload, repo_content, failure, cache, sent, returned, appOthers>>

\* Lines 35-39: parse_github_url raises.
AppInvalidUrl ==
    /\ apc = "fetch"
    /\ ~parse_github_url(github_url).ok
    /\ failure' = Exception("parse_github_url", "ValueError", TRUE, 0,
                            parse_github_url(github_url).message)
    /\ response' = FetchErrorResponse(failure')
    /\ apc' = "done"
    /\ UNCHANGED <<payload, repo_content, cache, sent, returned, appOthers>>

\* Lines 35-47: a provider call inside fetch_repo_content raises.
AppFetchFails ==
    /\ apc = "fetch"
    /\ parse_github_url(github_url).ok
    /\ \E e \in ProviderFailures :
          /\ failure' = e
          /\ response' = FetchErrorResponse(e)
    /\ apc' = "done"
    /\ UNCHANGED <<payload, repo_content, cache, sent, returned, appOthers>>

\* Lines 35-36, 49: fetch_repo_content returns the assembled content.
AppFetched ==
    /\ apc = "fetch"
    /\ parse_github_url(github_url).ok
    /\ repo_content' \in Contents
    /\ apc' = "summarize"
    /\ UNCHANGED <<payload, failure, response, cache, sent, returned, appOthers>>

AppKey == MemoKey(_cache_key(repo_content), repo_content)

\* The exception _parse_response raises on the raw text, if any.
ParseFailure(raw) ==
    LET out == _parse_response(RawOf(raw))
    IN  IF out.raised
        THEN Exception("_parse_response", out.error, out.error \in {"ValueError", "JSONDecodeError"},
                       0, out.field)
        ELSE NoFailure

\* Lines 50-63 on a cache hit.
AppCacheHit ==
    /\ apc = "summarize"
    /\ cache[AppKey] # ENOVAL
    /\ failure' = ParseFailure(cache[AppKey])
    /\ response' = Answer(cache[AppKey])
    /\ apc' = "done"
    /\ UNCHANGED <<payload, repo_content, cache, sent, returned, appOthers>>

\* Lines 50-57 on a miss without a credential.
AppConfigError ==
    /\ apc = "summarize"
    /\ cache[AppKey] = ENOVAL
    /\ NoCredential(api_key)
    /\ failure' = Exception("_get_client", "RuntimeError", FALSE, 0,
                            "NEBIUS_API_KEY environment variable is not set")
    /\ response' = SummarizeResponse(Raise("RuntimeError", ""))
    /\ apc' = "done"
    /\ UNCHANGED <<payload, repo_content, cache, sent, returned, appOthers>>

\* Lines 50-60 on a miss when the completion request fails.
AppCallFails ==
    /\ apc = "summarize"
    /\ cache[AppKey] = ENOVAL
    /\ ~NoCredential(api_key)
    /\ sent' = sent \cup {CompletionRequest(repo_content)}
    /\ failure' = Exception("_call_llm", "APIError", FALSE, 0, "")
    /\ response' = SummarizeResponse(Raise("APIError", ""))
    /\ apc' = "done"
    /\ UNCHANGED <<payload, repo_content, cache, returned, appOthers>>

\* Lines 50-63 on a miss when the completion request returns a text.
AppCallReturns ==
    /\ apc = "summarize"
    /\ cache[AppKey] = ENOVAL
    /\ ~NoCredential(api_key)
    /\ sent' = sent \cup {CompletionRequest(repo_content)}
    /\ \E raw \in AppRawNames :
          /\ returned' = returned \cup {<<repo_content, raw>>}
          /\ cache' = [cache EXCEPT ![AppKey] = raw]
          /\ failure' = ParseFailure(raw)
          /\ response' = Answer(raw)
    /\ apc' = "done"
    /\ UNCHANGED <<payload, repo_content, appOthers>>

NextApp ==
    \/ AppValidate
    \/ AppInvalidUrl
    \/ AppFetchFails
    \/ AppFetched
    \/ AppCacheHit
    \/ AppConfigError
    \/ AppCallFails
    \/ AppCallReturns

SpecApp == InitApp /\ [][NextApp]_vars

(***************************************************************************)
(* C5                                                                      *)
(***************************************************************************)
\* The request body is absent, not JSON, JSON that is not an object (an array,
\* a string, a number), an object without a string github_url, or has an empty
\* or whitespace github_url.
C5_BadBody ==
    \/ payload.kind # "json"
    \/ payload.body.type \in {"list", "str", "int"}
    \/ payload.body.type = "dict" /\ payload.body.url_type # "str"
    \/ payload.body.type = "dict" /\ \A i \in 1..Len(Chars[payload.body.url]) : Chars[payload.body.url][i] \in Whitespace

\* C5: every such request is answered 400 with the error envelope, and no tree
\* fetch and no model call is made for it.
C5_BadBodyIs400 ==
    apc = "done" /\ C5_BadBody =>
        /\ response.status = 400 /\ response.envelope
        /\ repo_content = "" /\ failure = NoFailure /\ sent = {}

(***************************************************************************)
(* C6                                                                      *)
(***************************************************************************)
\* The status the claim gives each kind of failure.
C6_StatusOfKind(e) ==
    IF e.origin = "parse_github_url" THEN 400
    ELSE IF e.origin = "fetch_repo_tree" /\ e.status_code = 404 THEN 404
    ELSE IF e.origin = "fetch_repo_tree" /\ e.status_code = 403 THEN 403
    ELSE IF e.origin \in {"fetch_repo_tree", "fetch_file_content"} THEN 502
    ELSE IF e.origin = "_get_client" THEN 500
    ELSE 502

\* C6: a request that passed validation and failed in a later stage is answered
\* in the error envelope with the status of the failure's kind: 400 only for an
\* unparseable URL, 404 and 403 as the tree provider reports, 500 only for the
\* missing credential, 502 for everything else.
C6_StatusByKind ==
    apc = "done" /\ failure # NoFailure =>
        /\ response.envelope
        /\ response.status = C6_StatusOfKind(failure)

====
